---------------------------- MODULE Spec2Model ----------------------------
(***************************************************************************)
(* State-machine model of the LUTHIER.AI interaction shell (src/App.tsx)   *)
(* and of the request builders of src/services/geminiService.ts.           *)
(*                                                                         *)
(* React state (useState) is one variable per hook.  Every asynchronous    *)
(* handler is cut at its awaits: the synchronous prefix of a handler is    *)
(* one action, and each continuation after an await is one action.  The    *)
(* invocations that are suspended at an await are kept, with their local   *)
(* variables, in the sequences reads, analyses, sims and sends (ordered by *)
(* dispatch).  The text of the chat (the input line, the messages of the   *)
(* transcript, the fragments of a stream) is a sequence of UTF-16 code     *)
(* units, as a JavaScript string is, so that it can hold every character   *)
(* the user can type; all other text is a TLA+ string.  A nullable value v *)
(* is <<>> for null and <<v>> otherwise.                                   *)
(***************************************************************************)
EXTENDS Integers, Sequences, FiniteSets, TLC

VARIABLES
    apiKey,          \* process.env.API_KEY is set (geminiService.ts:5)
    mounted,         \* the mount effect of App has run (App.tsx:94)
    activeTab,       \* App.tsx:60
    originalImage,   \* App.tsx:63
    rawFile,         \* App.tsx:64
    isAnalyzing,     \* App.tsx:65
    isGenerating,    \* App.tsx:66
    analysisResult,  \* App.tsx:67
    generatedPrompt, \* App.tsx:68
    generatedImage,  \* App.tsx:69
    error,           \* App.tsx:70
    chatSession,     \* App.tsx:73
    chatHistory,     \* App.tsx:74
    chatInput,       \* App.tsx:75
    isChatting,      \* App.tsx:76
    specs,           \* App.tsx:80
    reads,           \* handleFileUpload invocations awaiting fileToGenerativePart
    analyses,        \* performAnalysis invocations awaiting analyzeGuitarImage
    sims,            \* handleSimulate invocations awaiting a collaborator
    sends,           \* handleSendMessage invocations awaiting the stream
    lastAnalysis,    \* history: the result of the latest analysis that succeeded
    nUploads,        \* files chosen so far
    nSims,           \* generation pipelines started so far
    nEdits,          \* edits of the specification record so far
    nSends,          \* advisory messages sent so far
    nChunks          \* stream chunks received so far

vars == << apiKey, mounted, activeTab, originalImage, rawFile, isAnalyzing,
           isGenerating, analysisResult, generatedPrompt, generatedImage,
           error, chatSession, chatHistory, chatInput, isChatting, specs,
           reads, analyses, sims, sends, lastAnalysis, nUploads, nSims,
           nEdits, nSends, nChunks >>

-----------------------------------------------------------------------------
(* Bounds of the model.                                                    *)

MaxSends == 2
MaxChunks == 2
MaxUploads == 2
MaxSims == 2
MaxEdits == 1
MaxNotesLen == 5
MaxOps == 2

-----------------------------------------------------------------------------
(* Nullable values and sequences.                                          *)

Null == << >>

Some(v) == << v >>

IsNull(o) == o = << >>

Val(o) == o[1]

Last(s) == s[Len(s)]

RemoveAt(s, i) == SubSeq(s, 1, i - 1) \o SubSeq(s, i + 1, Len(s))

-----------------------------------------------------------------------------
(* JavaScript string primitives, on TLA+ strings and on code units.        *)

CharAt(s, i) == SubSeq(s, i, i)

\* the printable ASCII characters U+0020..U+005F and U+0061..U+007E, in
\* code order (U+0060 cannot be written in a string of the model; no text
\* of the source holds it)
AsciiLow ==
    " !\"#$%&'()*+,-./0123456789:;<=>?@ABCDEFGHIJKLMNOPQRSTUVWXYZ[\\]^_"

AsciiHigh == "abcdefghijklmnopqrstuvwxyz{|}~"

\* the code unit of a printable ASCII character
CodeOf(c) ==
    IF \E k \in 1..Len(AsciiLow) : CharAt(AsciiLow, k) = c
    THEN 31 + (CHOOSE k \in 1..Len(AsciiLow) : CharAt(AsciiLow, k) = c)
    ELSE 96 + (CHOOSE k \in 1..Len(AsciiHigh) : CharAt(AsciiHigh, k) = c)

\* the code units of a string literal of the source (all are ASCII)
RECURSIVE CodeUnits(_)
CodeUnits(s) ==
    IF Len(s) = 0 THEN << >>
    ELSE IF Len(s) = 1 THEN << CodeOf(s) >>
    ELSE LET h == Len(s) \div 2 IN
         CodeUnits(SubSeq(s, 1, h)) \o CodeUnits(SubSeq(s, h + 1, Len(s)))

\* the code units String.prototype.trim strips (ECMAScript WhiteSpace and
\* LineTerminator): TAB, LF, VT, FF, CR, SP, NBSP, U+1680, U+2000..U+200A,
\* U+2028, U+2029, U+202F, U+205F, U+3000, U+FEFF
WhiteSpace ==
    { 9, 10, 11, 12, 13, 32, 160, 5760 } \cup (8192..8202)
        \cup { 8232, 8233, 8239, 8287, 12288, 65279 }

\* String.prototype.trimStart, on code units
RECURSIVE TrimStart(_)
TrimStart(s) ==
    IF Len(s) > 0 /\ s[1] \in WhiteSpace
    THEN TrimStart(SubSeq(s, 2, Len(s)))
    ELSE s

\* String.prototype.trimEnd, on code units
RECURSIVE TrimEnd(_)
TrimEnd(s) ==
    IF Len(s) > 0 /\ s[Len(s)] \in WhiteSpace
    THEN TrimEnd(SubSeq(s, 1, Len(s) - 1))
    ELSE s

\* String.prototype.trim, on code units
Trim(s) == TrimEnd(TrimStart(s))

Upper == << "A", "B", "C", "D", "E", "F", "G", "H", "I", "J", "K", "L", "M",
            "N", "O", "P", "Q", "R", "S", "T", "U", "V", "W", "X", "Y", "Z" >>

Lower == << "a", "b", "c", "d", "e", "f", "g", "h", "i", "j", "k", "l", "m",
            "n", "o", "p", "q", "r", "s", "t", "u", "v", "w", "x", "y", "z" >>

LowerChar(c) ==
    IF \E k \in 1..Len(Upper) : Upper[k] = c
    THEN Lower[CHOOSE k \in 1..Len(Upper) : Upper[k] = c]
    ELSE c

\* String.prototype.toLowerCase: every character mapped, in place (the two
\* halves are converted separately to keep the recursion shallow)
RECURSIVE ToLowerCase(_)
ToLowerCase(s) ==
    IF Len(s) = 0 THEN ""
    ELSE IF Len(s) = 1 THEN LowerChar(s)
    ELSE LET h == Len(s) \div 2 IN
         ToLowerCase(SubSeq(s, 1, h)) \o ToLowerCase(SubSeq(s, h + 1, Len(s)))

\* String.prototype.includes
Includes(s, t) ==
    \E i \in 1..(Len(s) - Len(t) + 1) : SubSeq(s, i, i + Len(t) - 1) = t

\* position of the first occurrence of the one-character string c in s, or 0
IndexOf(s, c) ==
    IF \E i \in 1..Len(s) : CharAt(s, i) = c
    THEN CHOOSE i \in 1..Len(s) :
             /\ CharAt(s, i) = c
             /\ \A j \in 1..(i - 1) : CharAt(s, j) # c
    ELSE 0

\* s.split(',')[1]: the text between the first comma and the next one;
\* undefined (Null) when s holds no comma
SplitComma1(s) ==
    LET i == IndexOf(s, ",") IN
    IF i = 0 THEN Null
    ELSE LET rest == SubSeq(s, i + 1, Len(s))
             j    == IndexOf(rest, ",")
         IN  Some(IF j = 0 THEN rest ELSE SubSeq(rest, 1, j - 1))

-----------------------------------------------------------------------------
(* Domain vocabulary (types.ts, kept as src/unnamed/part_000).             *)

BodyWood == [ MAHOGANY |-> "Mahogany", ASH |-> "Swamp Ash", ALDER |-> "Alder",
              MAPLE |-> "Maple", BASSWOOD |-> "Basswood", KOA |-> "Koa" ]

NeckProfile == [ MODERN_C |-> "Modern C", VINTAGE_50S |-> "50s Vintage U",
                 SLIM_TAPER |-> "Slim Taper D",
                 WIZARD |-> "Super Thin (Wizard)" ]

FretboardMaterial == [ ROSEWOOD |-> "Rosewood", MAPLE |-> "Maple",
                       EBONY |-> "Ebony", PAU_FERRO |-> "Pau Ferro" ]

BridgeSystem == [ TUNE_O_MATIC |-> "Tune-o-matic (Fixed)",
                  HARDTAIL |-> "Hardtail (String-thru)",
                  SYNCHRONIZED_TREMOLO |-> "Synchronized Tremolo (Vintage)",
                  FLOYD_ROSE |-> "Floyd Rose (Double Locking)",
                  EVERTUNE |-> "Evertune (Spring Tension)" ]

PickupConfig == [ SSS |-> "SSS (3 Single Coils)",
                  HSS |-> "HSS (Humbucker Bridge)",
                  HH |-> "HH (Dual Humbuckers)", P90 |-> "Dual P-90s" ]

\* Object.values(options): the values a select offers
Values(enum) == { enum[k] : k \in DOMAIN enum }

-----------------------------------------------------------------------------
(* Characteristic tables (constants.ts), keyed by the enumeration values.  *)

\* a body wood table that lacks Koa
WoodCharacteristicsWithoutKoa ==
    BodyWood.MAHOGANY :> "High density, warm lows/mids, slow decay. Visually porous grain, often reddish-brown."
    @@ BodyWood.ASH :> "Lightweight, scooped mids, pronounced 'twang' and high-end snap. Distinctive, bold grain patterns."
    @@ BodyWood.ALDER :> "Balanced weight and frequency response. The neutral standard for bolt-on bodies. Closed grain."
    @@ BodyWood.MAPLE :> "Extreme density, very bright attack, heavy weight. Tight grain, often figured (flame/quilt)."
    @@ BodyWood.BASSWOOD :> "Soft, lightweight, neutral tone with strong fundamental. Minimal grain definition."

WOOD_CHARACTERISTICS ==
    BodyWood.MAHOGANY :> "High density, warm lows/mids, slow decay. Visually porous grain, often reddish-brown."
    @@ BodyWood.ASH :> "Lightweight, scooped mids, pronounced 'twang' and high-end snap. Distinctive, bold grain patterns."
    @@ BodyWood.ALDER :> "Balanced weight and frequency response. The neutral standard for bolt-on bodies. Closed grain."
    @@ BodyWood.MAPLE :> "Extreme density, very bright attack, heavy weight. Tight grain, often figured (flame/quilt)."
    @@ BodyWood.BASSWOOD :> "Soft, lightweight, neutral tone with strong fundamental. Minimal grain definition."
    @@ BodyWood.KOA :> "Medium density, crisp highs that warm up over time. Exotic, highly figured golden/brown grain."

NECK_CHARACTERISTICS ==
    NeckProfile.MODERN_C :> "Oval ergonomic profile, standard for contemporary playability."
    @@ NeckProfile.VINTAGE_50S :> "Thick 'Baseball Bat' profile, maximizes mechanical coupling and sustain."
    @@ NeckProfile.SLIM_TAPER :> "Flat 'D' shape, low mass, favored for faster playing styles."
    @@ NeckProfile.WIZARD :> "Ultra-thin, flat radius, reinforced with volute or multi-ply for stability."

BRIDGE_MECHANICS ==
    BridgeSystem.TUNE_O_MATIC :> "Fixed bridge, sharp break angle, maximizes body resonance transfer."
    @@ BridgeSystem.HARDTAIL :> "String-through body, high tuning stability, direct vibration transfer."
    @@ BridgeSystem.SYNCHRONIZED_TREMOLO :> "Vintage vibrato fulcrum, relies on spring claw tension."
    @@ BridgeSystem.FLOYD_ROSE :> "Double locking nut/bridge, infinite sustain, dive-bomb capability."
    @@ BridgeSystem.EVERTUNE :> "Mechanical spring modules per saddle, constant tension, zero pitch drift."

FRETBOARD_RESPONSE ==
    FretboardMaterial.EBONY :> "Extreme hardness, glass-like surface, immediate transient attack."
    @@ FretboardMaterial.MAPLE :> "Finished surface, bright snap, distinct separation of notes."
    @@ FretboardMaterial.ROSEWOOD :> "Oily open pore, warm attack, attenuates harsh high frequencies."
    @@ FretboardMaterial.PAU_FERRO :> "Harder than rosewood, snappy attack, tight grain structure."

\* TABLE[value]: the text of the entry, undefined when there is no entry
Description(table, value) ==
    IF value \in DOMAIN table THEN Some(table[value]) ELSE Null

\* s.split(',')[0]: the text before the first comma
SplitComma0(s) ==
    LET i == IndexOf(s, ",") IN
    IF i = 0 THEN s ELSE SubSeq(s, 1, i - 1)

\* description of the Body Wood select: WOOD_CHARACTERISTICS[specs.bodyWood]
WoodDescription(value) == Description(WOOD_CHARACTERISTICS, value)

\* description of the Fretboard select:
\* FRETBOARD_RESPONSE[specs.fretboard].split(',')[0]; Null when the entry
\* is missing (split of undefined throws)
FretboardDescription(value) ==
    LET text == Description(FRETBOARD_RESPONSE, value) IN
    IF IsNull(text) THEN Null ELSE Some(SplitComma0(Val(text)))

\* description of the Bridge Mechanics select: BRIDGE_MECHANICS[specs.bridge]
BridgeDescription(value) == Description(BRIDGE_MECHANICS, value)

-----------------------------------------------------------------------------
(* Fixed texts of the shell.                                               *)

GreetingText ==
    CodeUnits("I am your Digital Luthier. Ask me about tonewood physics, neck geometry, or hardware mechanics.")

InterruptedText ==
    CodeUnits("Connection to Luthier Intelligence Interrupted.")

AnalysisErrorText == "Failed to analyze image acoustics. Please check API Key."

SimulationErrorText ==
    "Simulation failed. Ensure you have a valid Gemini API Key enabled."

FrankensteinNotes ==
    "Custom Shop 'Frankenstein' mod. Gibson style Humbucker in bridge. Heavy relic aged Nitrocellulose finish. High performance hybrid aesthetic."

DefaultPhilosophy == "Standard Industry Design"

PromptFallbackText == "Failed to generate prompt."

\* useState<GuitarSpecs>(...): the specification record at session start
DefaultSpecs ==
    [ bodyWood        |-> BodyWood.ALDER,
      neckProfile     |-> NeckProfile.MODERN_C,
      fretboard       |-> FretboardMaterial.ROSEWOOD,
      bridge          |-> BridgeSystem.TUNE_O_MATIC,
      pickups         |-> PickupConfig.HH,
      scaleLength     |-> "24.75\"",
      fretboardRadius |-> "12\"",
      notes           |-> "" ]

ChatMessage(role, text) == [ role |-> role, text |-> text ]

-----------------------------------------------------------------------------
(* Inputs: what the user and the external collaborators can supply.        *)

\* texts typed into the chat input: nothing, a space, an ideographic space
\* (U+3000) and a question
ChatInputs == { << >>, CodeUnits(" "), << 12288 >>, CodeUnits("q") }

\* c.text of a streamed chunk: undefined (Null) or a text fragment
ChunkTexts == { Null, Some(CodeUnits("a")), Some(CodeUnits("b")) }

\* files the user can choose: MIME type and the base64 text of the content
Files == { [ type |-> "image/png", base64 |-> "iVBORw" ],
           [ type |-> "image/jpeg", base64 |-> "/9j/4A" ] }

\* a detectedSpecs object: every field optional
DetectedSpecs(wood, bridge, pickups, fretboard, construction, philosophy) ==
    [ bodyWood |-> wood, bridge |-> bridge, pickups |-> pickups,
      fretboard |-> fretboard, construction |-> construction,
      philosophy |-> philosophy ]

\* objects the analysis collaborator can answer with
AnalysisResults ==
    { [ detectedSpecs |-> DetectedSpecs(Some("Mahogany"), Some("Tune-o-matic"),
                                        Some("HH"), Some("Rosewood"),
                                        Some("Set-neck"),
                                        Some("Artesanal (Gibson)")),
        luthierNotes |-> "Warm sustain." ],
      [ detectedSpecs |-> DetectedSpecs(Some("Alder"), Null, Null, Null,
                                        Some("Bolt-on"), Null),
        luthierNotes |-> "Bright snap." ] }

\* an analysis whose philosophy is the empty string
EmptyPhilosophyResult ==
    [ detectedSpecs |-> DetectedSpecs(Some("Basswood"), Null, Null, Null, Null,
                                      Some("")),
      luthierNotes |-> "" ]

\* texts typed into the notes textarea
NotesInputs == { "", "gold hardware", "Heavy RELIC finish" }

\* the edits of the specification record tried while a pipeline runs
PipelineEdits == { << "bridge", BridgeSystem.EVERTUNE >>,
                   << "notes", "Heavy RELIC finish" >> }

\* characters of the notes typed one by one
NotesAlphabet == { "r", "e", "l", "i", "c", "R" }

\* every text over NotesAlphabet of at most n characters
RECURSIVE TextsUpTo(_)
TextsUpTo(n) ==
    IF n = 0 THEN { "" }
    ELSE LET shorter == TextsUpTo(n - 1) IN
         shorter \cup { t \o c : t \in shorter, c \in NotesAlphabet }

\* notes with a trigger word inside other words, in mixed case, and near
\* misses of the trigger words
PromptNotes ==
    { "a HYBRID build", "Hybrid", "matte hybri d", "FrankenStein neck",
      "frankenstien", "light Relic", "re-lic", "hy brid" }

\* response.text of the prompt synthesizer
PromptTexts == { Null, Some(""), Some("A photorealistic 8k close-up shot") }

\* response.candidates?.[0]?.content?.parts of the image synthesizer
ImageParts ==
    { Null,
      Some(<< [ text |-> Some("no image"), inlineData |-> Null ] >>),
      Some(<< [ text |-> Some("here"), inlineData |-> Null ],
              [ text |-> Null,
                inlineData |-> Some([ mimeType |-> "image/png",
                                      data |-> Some("R0lGOD") ]) ] >>),
      Some(<< [ text |-> Null,
                inlineData |-> Some([ mimeType |-> "image/png",
                                      data |-> Null ]) ] >>),
      Some(<< [ text |-> Null,
                inlineData |-> Some([ mimeType |-> "image/png",
                                      data |-> Some("") ]) ] >>),
      Some(<< >>) }

-----------------------------------------------------------------------------
(* Initial state: the first render of App, before its mount effect.        *)

Init ==
    /\ apiKey \in BOOLEAN
    /\ mounted = FALSE
    /\ activeTab = "configurator"
    /\ originalImage = Null
    /\ rawFile = Null
    /\ isAnalyzing = FALSE
    /\ isGenerating = FALSE
    /\ analysisResult = Null
    /\ generatedPrompt = Null
    /\ generatedImage = Null
    /\ error = Null
    /\ chatSession = Null
    /\ chatHistory = << >>
    /\ chatInput = << >>
    /\ isChatting = FALSE
    /\ specs = DefaultSpecs
    /\ reads = << >>
    /\ analyses = << >>
    /\ sims = << >>
    /\ sends = << >>
    /\ lastAnalysis = Null
    /\ nUploads = 0
    /\ nSims = 0
    /\ nEdits = 0
    /\ nSends = 0
    /\ nChunks = 0

-----------------------------------------------------------------------------
(* Collaborator construction (geminiService.ts).                           *)

\* a client that is built without a credential
getAiClientNeverThrows == FALSE

\* getAiClient throws when the credential is absent
getAiClientThrows == ~apiKey

\* createLuthierChatSession: the session handle, or Null when it throws
createLuthierChatSession == IF getAiClientThrows THEN Null ELSE Some("chat")

\* Mount effect: useEffect(() => {...}, [])
MountEffect ==
    /\ ~mounted
    /\ mounted' = TRUE
    /\ LET session == createLuthierChatSession IN
       IF IsNull(session)
       THEN UNCHANGED << chatSession, chatHistory >>
       ELSE /\ chatSession' = session
            /\ chatHistory' = << ChatMessage("model", GreetingText) >>
    /\ UNCHANGED << apiKey, activeTab, originalImage, rawFile, isAnalyzing,
                    isGenerating, analysisResult, generatedPrompt,
                    generatedImage, error, chatInput, isChatting, specs,
                    reads, analyses, sims, sends, lastAnalysis, nUploads,
                    nSims, nEdits, nSends, nChunks >>

\* Tab switcher buttons
SetActiveTab(tab) ==
    /\ mounted
    /\ activeTab # tab
    /\ activeTab' = tab
    /\ UNCHANGED << apiKey, mounted, originalImage, rawFile, isAnalyzing,
                    isGenerating, analysisResult, generatedPrompt,
                    generatedImage, error, chatSession, chatHistory,
                    chatInput, isChatting, specs, reads, analyses, sims,
                    sends, lastAnalysis, nUploads, nSims, nEdits, nSends,
                    nChunks >>

-----------------------------------------------------------------------------
(* Advisory chat (App.tsx:177-209, 411-425).                               *)

\* chat input onChange: setChatInput(e.target.value)
ChatInputChange(v) ==
    /\ mounted
    /\ activeTab = "advisory"
    /\ chatInput # v
    /\ chatInput' = v
    /\ UNCHANGED << apiKey, mounted, activeTab, originalImage, rawFile,
                    isAnalyzing, isGenerating, analysisResult,
                    generatedPrompt, generatedImage, error, chatSession,
                    chatHistory, isChatting, specs, reads, analyses, sims,
                    sends, lastAnalysis, nUploads, nSims, nEdits, nSends,
                    nChunks >>

\* disabled attribute of the SEND button
SendDisabled == Trim(chatInput) = << >> \/ isChatting

\* the Enter key calls handleSendMessage whatever isChatting is
EnterKeyDisabled == FALSE

\* the early return of handleSendMessage
SendReturnsEarly == Trim(chatInput) = << >> \/ IsNull(chatSession)

\* setChatHistory(prev => [...prev, { role: 'user', text: userMsg }])
AppendUserMessage(prev, userMsg) == Append(prev, ChatMessage("user", userMsg))

\* setChatHistory(prev => [...prev, { role: 'model', text: "" }])
AppendPlaceholder(prev) == Append(prev, ChatMessage("model", << >>))

\* const text = c.text || ""
ChunkText(c) == IF IsNull(c) \/ Val(c) = << >> THEN << >> ELSE Val(c)

\* newHistory[newHistory.length - 1] = { role: 'model', text: fullResponse }
\* (on an empty array JavaScript assigns index -1, a property that is no element)
UpdateLastMessage(prev, fullResponse) ==
    IF Len(prev) = 0 THEN prev
    ELSE [ prev EXCEPT ![Len(prev)] = ChatMessage("model", fullResponse) ]

\* a catch that only logs: the transcript is left as it was
OnSendErrorSilent(prev) == prev

\* catch: setChatHistory(prev => [...prev, { role: 'model', text: notice }])
OnSendError(prev) == Append(prev, ChatMessage("model", InterruptedText))

\* handleSendMessage up to its first await: the call of sendMessageStream
handleSendMessage ==
    /\ ~SendReturnsEarly
    /\ nSends < MaxSends
    /\ chatInput' = << >>
    /\ chatHistory' = AppendUserMessage(chatHistory, chatInput)
    /\ isChatting' = TRUE
    /\ sends' = Append(sends, [ userMsg |-> chatInput, pc |-> "await",
                                fullResponse |-> << >> ])
    /\ nSends' = nSends + 1
    /\ UNCHANGED << apiKey, mounted, activeTab, originalImage, rawFile,
                    isAnalyzing, isGenerating, analysisResult,
                    generatedPrompt, generatedImage, error, chatSession,
                    specs, reads, analyses, sims, lastAnalysis, nUploads,
                    nSims, nEdits, nChunks >>

\* SEND button onClick
SendClick ==
    /\ mounted
    /\ activeTab = "advisory"
    /\ ~SendDisabled
    /\ handleSendMessage

\* chat input onKeyDown: e.key === 'Enter' && handleSendMessage()
SendEnterKey ==
    /\ mounted
    /\ activeTab = "advisory"
    /\ ~EnterKeyDisabled
    /\ handleSendMessage

\* sendMessageStream resolves: the placeholder is appended, the loop starts
StreamOpen(i) ==
    /\ sends[i].pc = "await"
    /\ sends' = [ sends EXCEPT ![i].pc = "stream" ]
    /\ chatHistory' = AppendPlaceholder(chatHistory)
    /\ UNCHANGED << apiKey, mounted, activeTab, originalImage, rawFile,
                    isAnalyzing, isGenerating, analysisResult,
                    generatedPrompt, generatedImage, error, chatSession,
                    chatInput, isChatting, specs, reads, analyses, sims,
                    lastAnalysis, nUploads, nSims, nEdits, nSends, nChunks >>

\* one iteration of for await (const chunk of resultStream)
StreamChunk(i, c) ==
    /\ sends[i].pc = "stream"
    /\ nChunks < MaxChunks
    /\ LET fullResponse == sends[i].fullResponse \o ChunkText(c) IN
       /\ sends' = [ sends EXCEPT ![i].fullResponse = fullResponse ]
       /\ chatHistory' = UpdateLastMessage(chatHistory, fullResponse)
    /\ nChunks' = nChunks + 1
    /\ UNCHANGED << apiKey, mounted, activeTab, originalImage, rawFile,
                    isAnalyzing, isGenerating, analysisResult,
                    generatedPrompt, generatedImage, error, chatSession,
                    chatInput, isChatting, specs, reads, analyses, sims,
                    lastAnalysis, nUploads, nSims, nEdits, nSends >>

\* the stream ends: the loop exits, finally runs
StreamDone(i) ==
    /\ sends[i].pc = "stream"
    /\ sends' = RemoveAt(sends, i)
    /\ isChatting' = FALSE
    /\ UNCHANGED << apiKey, mounted, activeTab, originalImage, rawFile,
                    isAnalyzing, isGenerating, analysisResult,
                    generatedPrompt, generatedImage, error, chatSession,
                    chatHistory, chatInput, specs, reads, analyses, sims,
                    lastAnalysis, nUploads, nSims, nEdits, nSends, nChunks >>

\* sendMessageStream rejects, or the stream throws: catch, then finally
SendFail(i) ==
    /\ sends[i].pc \in {"await", "stream"}
    /\ sends' = RemoveAt(sends, i)
    /\ chatHistory' = OnSendError(chatHistory)
    /\ isChatting' = FALSE
    /\ UNCHANGED << apiKey, mounted, activeTab, originalImage, rawFile,
                    isAnalyzing, isGenerating, analysisResult,
                    generatedPrompt, generatedImage, error, chatSession,
                    chatInput, specs, reads, analyses, sims, lastAnalysis,
                    nUploads, nSims, nEdits, nSends, nChunks >>

ChatNext ==
    \/ MountEffect
    \/ \E tab \in {"configurator", "advisory"} : SetActiveTab(tab)
    \/ \E v \in ChatInputs : ChatInputChange(v)
    \/ SendClick
    \/ SendEnterKey
    \/ \E i \in DOMAIN sends : StreamOpen(i)
    \/ \E i \in DOMAIN sends : \E c \in ChunkTexts : StreamChunk(i, c)
    \/ \E i \in DOMAIN sends : StreamDone(i)
    \/ \E i \in DOMAIN sends : SendFail(i)

SpecChat == Init /\ [][ChatNext]_vars

-----------------------------------------------------------------------------
(* Upload and analysis (App.tsx:112-139, geminiService.ts:13-95).          *)

\* FileReader.readAsDataURL(file): reader.result
ReadAsDataURL(file) == "data:" \o file.type \o ";base64," \o file.base64

\* ${x} of a template literal
Interpolate(o) == IF IsNull(o) THEN "undefined" ELSE Val(o)

\* fileToGenerativePart: base64String.split(',')[1]
fileToGenerativePart(file) == SplitComma1(ReadAsDataURL(file))

\* `data:${file.type};base64,${base64}`
DataUri(type, base64) == "data:" \o type \o ";base64," \o Interpolate(base64)

\* the inlineData part analyzeGuitarImage sends
AnalysisRequest(base64Image) ==
    [ mimeType |-> "image/jpeg", data |-> base64Image ]

\* the state an upload resets before the analysis is dispatched
UploadResets ==
    /\ generatedImage' = Null
    /\ generatedPrompt' = Null
    /\ analysisResult' = Null
    /\ error' = Null
    /\ activeTab' = "configurator"

\* file input onChange up to the await of fileToGenerativePart
handleFileUpload(file) ==
    /\ mounted
    /\ activeTab = "configurator"
    /\ nUploads < MaxUploads
    /\ rawFile' = Some(file)
    /\ reads' = Append(reads, [ file |-> file ])
    /\ nUploads' = nUploads + 1
    /\ UNCHANGED << apiKey, mounted, activeTab, originalImage, isAnalyzing,
                    isGenerating, analysisResult, generatedPrompt,
                    generatedImage, error, chatSession, chatHistory,
                    chatInput, isChatting, specs, analyses, sims, sends,
                    lastAnalysis, nSims, nEdits, nSends, nChunks >>

\* the file has been read: the rest of handleFileUpload, and performAnalysis
\* up to the await of analyzeGuitarImage
FileRead(i) ==
    LET file   == reads[i].file
        base64 == fileToGenerativePart(file)
    IN  /\ reads' = RemoveAt(reads, i)
        /\ originalImage' = Some(DataUri(file.type, base64))
        /\ UploadResets
        /\ isAnalyzing' = TRUE
        /\ analyses' = Append(analyses,
                              [ base64Data |-> base64,
                                request |-> AnalysisRequest(base64),
                                issued |-> ~getAiClientThrows ])
        /\ UNCHANGED << apiKey, mounted, rawFile, isGenerating, chatSession,
                        chatHistory, chatInput, isChatting, specs, sims,
                        sends, lastAnalysis, nUploads, nSims, nEdits, nSends,
                        nChunks >>

\* reader.onerror: the promise rejects and the handler ends there
FileReadError(i) ==
    /\ reads' = RemoveAt(reads, i)
    /\ UNCHANGED << apiKey, mounted, activeTab, originalImage, rawFile,
                    isAnalyzing, isGenerating, analysisResult,
                    generatedPrompt, generatedImage, error, chatSession,
                    chatHistory, chatInput, isChatting, specs, analyses,
                    sims, sends, lastAnalysis, nUploads, nSims, nEdits,
                    nSends, nChunks >>

\* try: setAnalysisResult(result)
OnAnalysisResult(prev, result) == Some(result)

\* a catch that also clears the displayed result
OnAnalysisErrorClears(prev) == Null

\* catch of performAnalysis: what analysisResult becomes
OnAnalysisError(prev) == prev

\* analyzeGuitarImage resolves: try body, then finally
AnalysisReturn(i, result) ==
    /\ ~getAiClientThrows
    /\ analyses' = RemoveAt(analyses, i)
    /\ analysisResult' = OnAnalysisResult(analysisResult, result)
    /\ lastAnalysis' = Some(result)
    /\ isAnalyzing' = FALSE
    /\ UNCHANGED << apiKey, mounted, activeTab, originalImage, rawFile,
                    isGenerating, generatedPrompt, generatedImage, error,
                    chatSession, chatHistory, chatInput, isChatting, specs,
                    reads, sims, sends, nUploads, nSims, nEdits, nSends,
                    nChunks >>

\* analyzeGuitarImage rejects (no credential, transport, empty or malformed
\* response): catch, then finally
AnalysisFail(i) ==
    /\ analyses' = RemoveAt(analyses, i)
    /\ analysisResult' = OnAnalysisError(analysisResult)
    /\ error' = Some(AnalysisErrorText)
    /\ isAnalyzing' = FALSE
    /\ UNCHANGED << apiKey, mounted, activeTab, originalImage, rawFile,
                    isGenerating, generatedPrompt, generatedImage,
                    chatSession, chatHistory, chatInput, isChatting, specs,
                    reads, sims, sends, lastAnalysis, nUploads, nSims,
                    nEdits, nSends, nChunks >>

-----------------------------------------------------------------------------
(* Specification record (App.tsx:141-149, 318-366).                        *)

\* a preset that omits the body wood
FrankensteinPresetNoWood(prev) ==
    [ prev EXCEPT !.bridge = BridgeSystem.FLOYD_ROSE,
                  !.pickups = PickupConfig.HSS,
                  !.notes = FrankensteinNotes ]

\* setSpecs(prev => ({...prev, bridge, pickups, bodyWood, notes}))
FrankensteinPreset(prev) ==
    [ prev EXCEPT !.bridge = BridgeSystem.FLOYD_ROSE,
                  !.pickups = PickupConfig.HSS,
                  !.bodyWood = BodyWood.ASH,
                  !.notes = FrankensteinNotes ]

\* APPLY "FRANKENSTRAT" MODE button
applyFrankensteinPreset ==
    /\ mounted
    /\ activeTab = "configurator"
    /\ specs' = FrankensteinPreset(specs)
    /\ UNCHANGED << apiKey, mounted, activeTab, originalImage, rawFile,
                    isAnalyzing, isGenerating, analysisResult,
                    generatedPrompt, generatedImage, error, chatSession,
                    chatHistory, chatInput, isChatting, reads, analyses,
                    sims, sends, lastAnalysis, nUploads, nSims, nSends,
                    nChunks >>

\* the values each field's control offers
FieldValues ==
    [ bodyWood |-> Values(BodyWood),
      fretboard |-> Values(FretboardMaterial),
      neckProfile |-> Values(NeckProfile),
      bridge |-> Values(BridgeSystem),
      pickups |-> Values(PickupConfig),
      notes |-> NotesInputs ]

\* setSpecs({...specs, [f]: v})
WithField(prev, f, v) == [ prev EXCEPT ![f] = v ]

\* onChange of a select or of the notes textarea
SetSpecField(f, v) ==
    /\ mounted
    /\ activeTab = "configurator"
    /\ specs[f] # v
    /\ specs' = WithField(specs, f, v)
    /\ UNCHANGED << apiKey, mounted, activeTab, originalImage, rawFile,
                    isAnalyzing, isGenerating, analysisResult,
                    generatedPrompt, generatedImage, error, chatSession,
                    chatHistory, chatInput, isChatting, reads, analyses,
                    sims, sends, lastAnalysis, nUploads, nSims, nSends,
                    nChunks >>

\* an edit counted against the edits of one session
Counted(edit) ==
    /\ nEdits < MaxEdits
    /\ edit
    /\ nEdits' = nEdits + 1

-----------------------------------------------------------------------------
(* Prompt synthesis request (geminiService.ts:101-171).                    *)

DeviateInstruction ==
    "Create a 'High Performance Hybrid' aesthetic. Act as a Custom Shop Luthier blending the original shape with aggressive, modern, or distressed (relic) modifications. Deviate from the original vintage philosophy to achieve a unique 'Frankenstein' super-mod look."

PreserveInstruction(originalPhilosophy) ==
    "Ensure the aesthetic respects the original instrument's philosophy ("
        \o originalPhilosophy
        \o ") unless the modification explicitly contradicts it."

\* const notes = targetSpecs.notes || ""
NotesOf(targetSpecs) ==
    IF "notes" \in DOMAIN targetSpecs THEN targetSpecs.notes ELSE ""

\* the keyword test without toLowerCase
isFrankensteinCaseSensitive(notes) ==
    \/ Includes(notes, "frankenstein")
    \/ Includes(notes, "relic")
    \/ Includes(notes, "hybrid")

\* the keyword test on the lower-cased notes
isFrankenstein(notes) ==
    \/ Includes(ToLowerCase(notes), "frankenstein")
    \/ Includes(ToLowerCase(notes), "relic")
    \/ Includes(ToLowerCase(notes), "hybrid")

philosophyInstruction(notes, originalPhilosophy) ==
    IF isFrankenstein(notes)
    THEN DeviateInstruction
    ELSE PreserveInstruction(originalPhilosophy)

\* what generateLutheriePrompt sends: the image part and the fields its
\* userPrompt template is filled with
PromptRequest(base64Original, targetSpecs, originalPhilosophy) ==
    [ image |-> [ mimeType |-> "image/jpeg", data |-> base64Original ],
      originalPhilosophy |-> originalPhilosophy,
      targetSpecs |-> targetSpecs,
      notes |-> NotesOf(targetSpecs),
      philosophyInstruction |->
          philosophyInstruction(NotesOf(targetSpecs), originalPhilosophy) ]

\* return response.text || "Failed to generate prompt."
PromptOf(text) ==
    IF IsNull(text) \/ Val(text) = "" THEN PromptFallbackText ELSE Val(text)

\* generateModifiedGuitarImage on the parts of a response: the data URI of
\* the first part with inlineData.data, or Null when it throws
RECURSIVE FirstInlineImage(_)
FirstInlineImage(parts) ==
    IF Len(parts) = 0 THEN Null
    ELSE LET part == Head(parts) IN
         IF ~IsNull(part.inlineData)
            /\ ~IsNull(Val(part.inlineData).data)
            /\ Val(Val(part.inlineData).data) # ""
         THEN Some("data:" \o Val(part.inlineData).mimeType \o ";base64,"
                       \o Val(Val(part.inlineData).data))
         ELSE FirstInlineImage(Tail(parts))

\* a render that accepts a response without image data
ImageOfUnchecked(parts) ==
    IF IsNull(parts) \/ IsNull(FirstInlineImage(Val(parts)))
    THEN Some("data:undefined;base64,undefined")
    ELSE FirstInlineImage(Val(parts))

ImageOf(parts) == IF IsNull(parts) THEN Null ELSE FirstInlineImage(Val(parts))

-----------------------------------------------------------------------------
(* Generation pipeline (App.tsx:151-175, 368-378).                         *)

\* !x of a nullable string
Falsy(o) == IsNull(o) \/ Val(o) = ""

\* a button that is disabled only while no image is loaded
GenerateDisabledNotBusy == Falsy(originalImage)

\* disabled attribute of the GENERATE PROTOTYPE button
GenerateDisabled == Falsy(originalImage) \/ isGenerating

\* the early return of handleSimulate (specs is always an object)
SimulateReturnsEarly == Falsy(originalImage)

\* a pipeline that never reads the analysis
PhilosophyIgnored(result) == DefaultPhilosophy

\* analysisResult?.detectedSpecs?.philosophy || "Standard Industry Design"
PhilosophyOf(result) ==
    IF IsNull(result) THEN DefaultPhilosophy
    ELSE IF Falsy(Val(result).detectedSpecs.philosophy) THEN DefaultPhilosophy
    ELSE Val(Val(result).detectedSpecs.philosophy)

\* handleSimulate up to the await of generateLutheriePrompt
handleSimulate ==
    /\ ~SimulateReturnsEarly
    /\ nSims < MaxSims
    /\ isGenerating' = TRUE
    /\ error' = Null
    /\ generatedImage' = Null
    /\ generatedPrompt' = Null
    /\ LET base64Data == SplitComma1(Val(originalImage))
           philosophy == PhilosophyOf(analysisResult)
       IN  sims' = Append(sims,
                          [ pc |-> "prompt",
                            request |-> PromptRequest(base64Data, specs,
                                                      philosophy),
                            issued |-> ~getAiClientThrows,
                            prompt |-> Null ])
    /\ nSims' = nSims + 1
    /\ UNCHANGED << apiKey, mounted, activeTab, originalImage, rawFile,
                    isAnalyzing, analysisResult, chatSession, chatHistory,
                    chatInput, isChatting, specs, reads, analyses, sends,
                    lastAnalysis, nUploads, nEdits, nSends, nChunks >>

\* GENERATE PROTOTYPE button onClick
GenerateClick ==
    /\ mounted
    /\ activeTab = "configurator"
    /\ ~GenerateDisabled
    /\ handleSimulate

\* generateLutheriePrompt resolves: setGeneratedPrompt, then the render call
PromptReturn(i, text) ==
    /\ ~getAiClientThrows
    /\ sims[i].pc = "prompt"
    /\ LET prompt == PromptOf(text) IN
       /\ generatedPrompt' = Some(prompt)
       /\ sims' = [ sims EXCEPT ![i].pc = "image", ![i].prompt = Some(prompt) ]
    /\ UNCHANGED << apiKey, mounted, activeTab, originalImage, rawFile,
                    isAnalyzing, isGenerating, analysisResult,
                    generatedImage, error, chatSession, chatHistory,
                    chatInput, isChatting, specs, reads, analyses, sends,
                    lastAnalysis, nUploads, nSims, nEdits, nSends, nChunks >>

\* catch and finally of handleSimulate
SimulateCatch(i) ==
    /\ sims' = RemoveAt(sims, i)
    /\ error' = Some(SimulationErrorText)
    /\ isGenerating' = FALSE
    /\ UNCHANGED << apiKey, mounted, activeTab, originalImage, rawFile,
                    isAnalyzing, analysisResult, generatedPrompt,
                    generatedImage, chatSession, chatHistory, chatInput,
                    isChatting, specs, reads, analyses, sends, lastAnalysis,
                    nUploads, nSims, nEdits, nSends, nChunks >>

\* generateLutheriePrompt rejects
PromptFail(i) ==
    /\ sims[i].pc = "prompt"
    /\ SimulateCatch(i)

\* generateModifiedGuitarImage settles on a response with these parts
ImageReturn(i, parts) ==
    /\ ~getAiClientThrows
    /\ sims[i].pc = "image"
    /\ IF IsNull(ImageOf(parts))
       THEN SimulateCatch(i)
       ELSE /\ generatedImage' = ImageOf(parts)
            /\ sims' = RemoveAt(sims, i)
            /\ isGenerating' = FALSE
            /\ UNCHANGED << apiKey, mounted, activeTab, originalImage,
                            rawFile, isAnalyzing, analysisResult,
                            generatedPrompt, error, chatSession, chatHistory,
                            chatInput, isChatting, specs, reads, analyses,
                            sends, lastAnalysis, nUploads, nSims, nEdits,
                            nSends, nChunks >>

\* the render call rejects before any response
ImageFail(i) ==
    /\ sims[i].pc = "image"
    /\ SimulateCatch(i)

-----------------------------------------------------------------------------
(* The configurator flows of the shell.                                    *)

Next ==
    \/ MountEffect
    \/ \E tab \in {"configurator", "advisory"} : SetActiveTab(tab)
    \/ \E file \in Files : handleFileUpload(file)
    \/ \E i \in DOMAIN reads : FileRead(i)
    \/ \E i \in DOMAIN reads : FileReadError(i)
    \/ \E i \in DOMAIN analyses : \E r \in AnalysisResults : AnalysisReturn(i, r)
    \/ \E i \in DOMAIN analyses : AnalysisFail(i)
    \/ Counted(applyFrankensteinPreset)
    \/ \E e \in PipelineEdits : Counted(SetSpecField(e[1], e[2]))
    \/ GenerateClick
    \/ \E i \in DOMAIN sims : \E t \in PromptTexts : PromptReturn(i, t)
    \/ \E i \in DOMAIN sims : PromptFail(i)
    \/ \E i \in DOMAIN sims : \E parts \in ImageParts : ImageReturn(i, parts)
    \/ \E i \in DOMAIN sims : ImageFail(i)

Spec == Init /\ [][Next]_vars

-----------------------------------------------------------------------------
(* The specification record on its own: every value of every control.      *)

RecordNext ==
    \/ MountEffect
    \/ \E tab \in {"configurator", "advisory"} : SetActiveTab(tab)
    \/ applyFrankensteinPreset /\ UNCHANGED nEdits
    \/ \E f \in DOMAIN FieldValues : \E v \in FieldValues[f] :
           SetSpecField(f, v) /\ UNCHANGED nEdits

SpecRecord == Init /\ [][RecordNext]_vars

-----------------------------------------------------------------------------
(* The prompt request on its own: a session with an image uploaded and     *)
(* any notes typed, in which GENERATE PROTOTYPE is clicked.                *)

InitPrompt ==
    /\ apiKey = TRUE
    /\ mounted = TRUE
    /\ activeTab = "configurator"
    /\ \E file \in Files :
           /\ rawFile = Some(file)
           /\ originalImage = Some(DataUri(file.type, fileToGenerativePart(file)))
    /\ isAnalyzing = FALSE
    /\ isGenerating = FALSE
    /\ analysisResult \in {Null} \cup { Some(r) : r \in AnalysisResults
                                                    \cup {EmptyPhilosophyResult} }
    /\ generatedPrompt = Null
    /\ generatedImage = Null
    /\ error = Null
    /\ chatSession = createLuthierChatSession
    /\ chatHistory = << ChatMessage("model", GreetingText) >>
    /\ chatInput = << >>
    /\ isChatting = FALSE
    /\ \E n \in TextsUpTo(MaxNotesLen) \cup NotesInputs \cup PromptNotes
                  \cup {FrankensteinNotes} :
           specs = WithField(DefaultSpecs, "notes", n)
    /\ reads = << >>
    /\ analyses = << >>
    /\ sims = << >>
    /\ sends = << >>
    /\ lastAnalysis = analysisResult
    /\ nUploads = 1
    /\ nSims = 0
    /\ nEdits = 0
    /\ nSends = 0
    /\ nChunks = 0

PromptNext == GenerateClick

SpecPrompt == InitPrompt /\ [][PromptNext]_vars

-----------------------------------------------------------------------------
(* The whole shell: configurator and advisory flows together, within a      *)
(* budget of operations the user starts.                                    *)

Within(op) ==
    /\ nUploads + nSims + nEdits + nSends < MaxOps
    /\ op

SessionNext ==
    \/ MountEffect
    \/ \E tab \in {"configurator", "advisory"} : SetActiveTab(tab)
    \/ \E v \in ChatInputs : ChatInputChange(v)
    \/ Within(SendClick)
    \/ Within(SendEnterKey)
    \/ \E i \in DOMAIN sends : StreamOpen(i)
    \/ \E i \in DOMAIN sends : \E c \in ChunkTexts : StreamChunk(i, c)
    \/ \E i \in DOMAIN sends : StreamDone(i)
    \/ \E i \in DOMAIN sends : SendFail(i)
    \/ \E file \in Files : Within(handleFileUpload(file))
    \/ \E i \in DOMAIN reads : FileRead(i)
    \/ \E i \in DOMAIN reads : FileReadError(i)
    \/ \E i \in DOMAIN analyses : \E r \in AnalysisResults : AnalysisReturn(i, r)
    \/ \E i \in DOMAIN analyses : AnalysisFail(i)
    \/ Within(Counted(applyFrankensteinPreset))
    \/ \E e \in PipelineEdits : Within(Counted(SetSpecField(e[1], e[2])))
    \/ Within(GenerateClick)
    \/ \E i \in DOMAIN sims : \E t \in PromptTexts : PromptReturn(i, t)
    \/ \E i \in DOMAIN sims : PromptFail(i)
    \/ \E i \in DOMAIN sims : \E parts \in ImageParts : ImageReturn(i, parts)
    \/ \E i \in DOMAIN sims : ImageFail(i)

SpecSession == Init /\ [][SessionNext]_vars

-----------------------------------------------------------------------------
(* Properties.                                                             *)

InterruptedMessage == ChatMessage("model", InterruptedText)

IsPrefix(a, b) == Len(a) <= Len(b) /\ SubSeq(b, 1, Len(a)) = a

\* C1: at most one advisory send is in flight at any time: no second
\* sendMessageStream call starts before the first has completed or failed.
C1_OneSendInFlight == Len(sends) <= 1

\* C2: the transcript is append-only: across every step each entry keeps its
\* index, role and text, except that the text of the last entry may be
\* extended (the old text is a prefix of the new one).
C2_AppendOnly ==
    [][ /\ Len(chatHistory') >= Len(chatHistory)
        /\ \A k \in 1..Len(chatHistory) :
               /\ chatHistory'[k].role = chatHistory[k].role
               /\ IF k < Len(chatHistory)
                  THEN chatHistory'[k].text = chatHistory[k].text
                  ELSE IsPrefix(chatHistory[k].text, chatHistory'[k].text)
      ]_vars

\* C3: when a stream fails after delivering fragments, the accumulated text
\* is discarded: after the failure is handled the transcript ends with the
\* interruption notice, the entry before the notice is the user's message,
\* and no model entry holds the partial text.
C3_PartialDiscarded ==
    [][ \A i \in DOMAIN sends :
            (SendFail(i) /\ sends[i].fullResponse # << >>)
            => /\ Last(chatHistory') = InterruptedMessage
               /\ chatHistory'[Len(chatHistory') - 1].role = "user"
               /\ \A k \in DOMAIN chatHistory' :
                      chatHistory'[k] #
                          ChatMessage("model", sends[i].fullResponse)
      ]_vars

\* C4: whenever an advisory send fails, before the stream starts or partway
\* through it, the last entry of the transcript right after the failure is
\* handled is exactly the interruption notice with role model.
C4_FailureEndsWithNotice ==
    [][ \A i \in DOMAIN sends :
            SendFail(i) => Last(chatHistory') = InterruptedMessage
      ]_vars

\* a send failed after a fragment "a" had been shown: the notice is last
C4_Witness ==
    /\ Len(chatHistory) >= 3
    /\ Last(chatHistory) = InterruptedMessage
    /\ chatHistory[Len(chatHistory) - 1]
           = ChatMessage("model", CodeUnits("a"))
    /\ chatHistory[Len(chatHistory) - 2].role = "user"
    /\ sends = << >>

\* C5: at most one analysis call is outstanding at any time, for every
\* sequence of file uploads.
C5_OneAnalysisOutstanding == Len(analyses) <= 1

\* C6: at most one generation pipeline runs at any time, and while one runs
\* isGenerating is true, whatever uploads, edits, presets and tab switches
\* are interleaved.
C6_OnePipeline ==
    /\ Len(sims) <= 1
    /\ Len(sims) = 1 <=> isGenerating

\* a second pipeline runs, after the first ended, while an analysis of a
\* re-upload is outstanding and the record has been edited
C6_Witness ==
    /\ Len(sims) = 1
    /\ nSims = 2
    /\ Len(analyses) = 1
    /\ nUploads = 2
    /\ nEdits = 1

\* C7 (as claimed): when an analysis call fails, the error is shown and the
\* result of the previous successful analysis is still the value of
\* analysisResult.
C7_PriorResultKept ==
    [][ \A i \in DOMAIN analyses :
            (AnalysisFail(i) /\ ~IsNull(lastAnalysis))
            => /\ error' = Some(AnalysisErrorText)
               /\ analysisResult' = lastAnalysis
      ]_vars

\* C7 (amended): when an analysis call fails, the error is shown and handling
\* the failure changes nothing else: analysisResult, the image, the
\* generated outputs and the record are as they were when the failure
\* arrived.  What clears a result is the upload: every upload sets
\* analysisResult to null when its file has been read, before its analysis
\* is dispatched; and only a returning analysis call sets it, to the result
\* it returned.  So after a failure analysisResult is null, or a result
\* that arrived after the reset of the latest upload.
C7_FailureKeepsState ==
    [][ /\ \A i \in DOMAIN analyses :
               AnalysisFail(i)
               => /\ error' = Some(AnalysisErrorText)
                  /\ analysisResult' = analysisResult
                  /\ UNCHANGED << originalImage, generatedPrompt,
                                  generatedImage, specs >>
        /\ \A i \in DOMAIN reads :
               FileRead(i)
               => /\ analysisResult' = Null
                  /\ Len(analyses') = Len(analyses) + 1
        /\ analysisResult' # analysisResult
           => \/ IsNull(analysisResult') /\ \E i \in DOMAIN reads : FileRead(i)
              \/ \E i \in DOMAIN analyses : \E r \in AnalysisResults :
                     AnalysisReturn(i, r) /\ analysisResult' = Some(r)
      ]_vars

\* an analysis had succeeded, the image was replaced and the analysis of the
\* new image failed: the error is shown and no result is displayed
C7_Witness ==
    /\ ~IsNull(lastAnalysis)
    /\ IsNull(analysisResult)
    /\ error = Some(AnalysisErrorText)
    /\ nUploads = 2
    /\ analyses = << >>
    /\ reads = << >>

\* C8: after an upload whose analysis call fails, analysisResult is null and
\* the error message is set; and when an analysis succeeds, analysisResult
\* is exactly the result that call returned.
C8_FailedAnalysisLeavesNull ==
    [][ /\ \A i \in DOMAIN analyses :
               AnalysisFail(i)
               => /\ IsNull(analysisResult')
                  /\ error' = Some(AnalysisErrorText)
        /\ \A i \in DOMAIN analyses : \A r \in AnalysisResults :
               AnalysisReturn(i, r) => analysisResult' = Some(r)
      ]_vars

\* two letters that differ at most in case
SameLetter(a, b) ==
    \/ a = b
    \/ \E k \in 1..Len(Upper) : {a, b} = {Upper[k], Lower[k]}

\* word occurs in text, letter case ignored
OccursIgnoringCase(text, word) ==
    \E p \in 0..(Len(text) - Len(word)) :
        \A k \in 1..Len(word) :
            SameLetter(CharAt(text, p + k), CharAt(word, k))

TriggerWords == { "frankenstein", "relic", "hybrid" }

\* C9: every prompt request carries the deviate instruction if its notes
\* contain a trigger word in any letter case, and otherwise the preserve
\* instruction with the original philosophy embedded; never both.
C9_InstructionFollowsNotes ==
    \A i \in DOMAIN sims :
        LET r == sims[i].request IN
        /\ r.notes = r.targetSpecs.notes
        /\ IF \E w \in TriggerWords : OccursIgnoringCase(r.notes, w)
           THEN r.philosophyInstruction = DeviateInstruction
           ELSE /\ r.philosophyInstruction
                       = PreserveInstruction(r.originalPhilosophy)
                /\ Includes(r.philosophyInstruction, r.originalPhilosophy)
        /\ DeviateInstruction # PreserveInstruction(r.originalPhilosophy)

\* a request is in flight whose notes spell a trigger word in mixed case
C9_Witness ==
    \E i \in DOMAIN sims :
        /\ sims[i].request.notes = "Relic"
        /\ sims[i].request.philosophyInstruction = DeviateInstruction

\* C10: the preset sets bridge, pickups, body wood and notes in one step and
\* leaves the other fields alone; the notes of the preset never appear with
\* only some of the other three fields set; applying it again changes
\* nothing.
C10_PresetAtomic ==
    [][ /\ applyFrankensteinPreset
           => /\ specs'.bridge = BridgeSystem.FLOYD_ROSE
              /\ specs'.pickups = PickupConfig.HSS
              /\ specs'.bodyWood = BodyWood.ASH
              /\ specs'.notes = FrankensteinNotes
              /\ specs'.neckProfile = specs.neckProfile
              /\ specs'.fretboard = specs.fretboard
              /\ specs'.scaleLength = specs.scaleLength
              /\ specs'.fretboardRadius = specs.fretboardRadius
              /\ FrankensteinPreset(specs') = specs'
        /\ (specs.notes # FrankensteinNotes /\ specs'.notes = FrankensteinNotes)
           => /\ specs'.bridge = BridgeSystem.FLOYD_ROSE
              /\ specs'.pickups = PickupConfig.HSS
              /\ specs'.bodyWood = BodyWood.ASH
      ]_vars

\* the preset has been applied to a record whose other fields were edited
C10_Witness ==
    /\ specs.bridge = BridgeSystem.FLOYD_ROSE
    /\ specs.pickups = PickupConfig.HSS
    /\ specs.bodyWood = BodyWood.ASH
    /\ specs.notes = FrankensteinNotes
    /\ specs.neckProfile = NeckProfile.WIZARD
    /\ specs.fretboard = FretboardMaterial.EBONY
    /\ specs.scaleLength = DefaultSpecs.scaleLength
    /\ specs.fretboardRadius = DefaultSpecs.fretboardRadius

\* C11: the image synthesizer is never invoked without a prompt: when the
\* prompt synthesizer fails, or answers without prompt text, the pipeline
\* ends with the generic failure message, no render call is made and
\* generatedImage stays null.
C11_RenderNeedsPrompt ==
    [][ \A i \in DOMAIN sims :
            /\ PromptFail(i)
               => /\ sims' = RemoveAt(sims, i)
                  /\ error' = Some(SimulationErrorText)
                  /\ IsNull(generatedImage')
            /\ \A t \in PromptTexts :
                   (PromptReturn(i, t) /\ Falsy(t))
                   => /\ sims' = RemoveAt(sims, i)
                      /\ error' = Some(SimulationErrorText)
                      /\ IsNull(generatedImage')
      ]_vars

\* the parts of a render response hold inline image data
HasInlineData(parts) ==
    /\ ~IsNull(parts)
    /\ \E k \in DOMAIN Val(parts) :
           /\ ~IsNull(Val(parts)[k].inlineData)
           /\ ~Falsy(Val(Val(parts)[k].inlineData).data)

\* C12: a render response without inline image data ends the pipeline as a
\* failure: generatedImage is null, the error message is set and
\* isGenerating is false; a response is accepted only if it holds image data.
C12_NoImageDataIsFailure ==
    [][ \A i \in DOMAIN sims : \A parts \in ImageParts :
            ImageReturn(i, parts)
            => IF HasInlineData(parts)
               THEN /\ ~IsNull(generatedImage')
                    /\ error' = error
               ELSE /\ IsNull(generatedImage')
                    /\ error' = Some(SimulationErrorText)
                    /\ ~isGenerating'
                    /\ sims' = RemoveAt(sims, i)
      ]_vars

\* a pipeline whose prompt was synthesized ended in the error state with no
\* image
C12_Witness ==
    /\ generatedPrompt = Some("A photorealistic 8k close-up shot")
    /\ IsNull(generatedImage)
    /\ error = Some(SimulationErrorText)
    /\ ~isGenerating
    /\ sims = << >>

\* C13: a pipeline that starts calls the prompt synthesizer with the
\* philosophy of the current analysis result, and with "Standard Industry
\* Design" only when there is no result or its philosophy is absent or
\* empty; with the default record the preserve instruction is used.
C13_PhilosophyPassed ==
    [][ handleSimulate
        => LET r == Last(sims').request
               detected == IF IsNull(analysisResult) THEN Null
                           ELSE Val(analysisResult).detectedSpecs.philosophy
           IN  /\ r.originalPhilosophy
                      = IF detected \in { Null, Some("") }
                        THEN "Standard Industry Design"
                        ELSE Val(detected)
               /\ specs = DefaultSpecs
                  => r.philosophyInstruction
                         = PreserveInstruction(r.originalPhilosophy)
      ]_vars

\* the scenario of the claim: analysis says Artesanal (Gibson), the record is
\* at its defaults and a pipeline has started
C13_Witness ==
    \E i \in DOMAIN sims :
        /\ sims[i].request.originalPhilosophy = "Artesanal (Gibson)"
        /\ sims[i].request.targetSpecs = DefaultSpecs
        /\ sims[i].request.philosophyInstruction
               = PreserveInstruction("Artesanal (Gibson)")

\* C14: without the credential no request is ever issued: no chat session
\* exists, so every send returns early; every analysis and every pipeline
\* fails in getAiClient before its request and ends in its error state.
C14_NoCredentialNoCall ==
    /\ [](~apiKey
          => /\ IsNull(chatSession)
             /\ SendReturnsEarly
             /\ sends = << >>
             /\ chatHistory = << >>
             /\ ~isChatting
             /\ \A i \in DOMAIN analyses : ~analyses[i].issued
             /\ \A i \in DOMAIN sims :
                    ~sims[i].issued /\ sims[i].pc = "prompt"
             /\ IsNull(analysisResult)
             /\ IsNull(generatedPrompt)
             /\ IsNull(generatedImage))
    /\ [][ ~apiKey
           => /\ Len(analyses') < Len(analyses)
                 => error' = Some(AnalysisErrorText) /\ ~isAnalyzing'
              /\ Len(sims') < Len(sims)
                 => error' = Some(SimulationErrorText) /\ ~isGenerating'
         ]_vars

\* without the credential: an image was uploaded, its analysis and a
\* pipeline have failed, and a message is typed in the advisory tab
C14_Witness ==
    /\ ~apiKey
    /\ mounted
    /\ ~IsNull(originalImage)
    /\ nSims = 1
    /\ sims = << >>
    /\ analyses = << >>
    /\ error = Some(SimulationErrorText)
    /\ activeTab = "advisory"
    /\ chatInput = CodeUnits("q")

\* C15: an operation that completes or fails clears its busy indicator and
\* leaves the shell able to start the same operation again (after a failed
\* send the session is still there); and a busy indicator is not cleared
\* while a call of its operation is outstanding.
C15_BusyWhileOutstanding ==
    /\ [][ /\ Len(analyses') < Len(analyses) => ~isAnalyzing'
           /\ Len(sims') < Len(sims) => ~isGenerating'
           /\ Len(sends') < Len(sends)
              => ~isChatting' /\ ~IsNull(chatSession')
         ]_vars
    /\ [](/\ analyses # << >> => isAnalyzing
          /\ sims # << >> => isGenerating
          /\ sends # << >> => isChatting)

\* C16: the image payload sent to the analysis collaborator and to the
\* prompt synthesizer carries the MIME type and the base64 data of the
\* uploaded file, the ones the displayed data URI is built from.
C16_MimePreserved ==
    [][ /\ \A i \in DOMAIN reads :
               FileRead(i)
               => LET sent == Last(analyses').request IN
                  /\ sent.mimeType = reads[i].file.type
                  /\ sent.data = Some(reads[i].file.base64)
                  /\ originalImage'
                         = Some(DataUri(sent.mimeType, sent.data))
        /\ handleSimulate
           => LET sent == Last(sims').request.image IN
              originalImage = Some(DataUri(sent.mimeType, sent.data))
      ]_vars

\* a table maps every value of its enumeration, and nothing else, to a
\* non-empty text
TotalOn(table, enum) ==
    /\ DOMAIN table = Values(enum)
    /\ \A v \in Values(enum) : table[v] # ""

\* C17: each of the four characteristic tables is a total mapping of its
\* enumeration to non-empty texts, so whatever the record holds, the
\* descriptions rendered for its body wood, bridge and fretboard exist and
\* are non-empty (the neck profile is rendered without one).
C17_TablesTotal ==
    /\ TotalOn(WOOD_CHARACTERISTICS, BodyWood)
    /\ TotalOn(NECK_CHARACTERISTICS, NeckProfile)
    /\ TotalOn(BRIDGE_MECHANICS, BridgeSystem)
    /\ TotalOn(FRETBOARD_RESPONSE, FretboardMaterial)
    /\ ~Falsy(WoodDescription(specs.bodyWood))
    /\ ~Falsy(BridgeDescription(specs.bridge))
    /\ ~Falsy(FretboardDescription(specs.fretboard))

\* the record holds the last value of each enumeration and its descriptions
\* are rendered
C17_Witness ==
    /\ specs.bodyWood = BodyWood.KOA
    /\ specs.neckProfile = NeckProfile.WIZARD
    /\ specs.bridge = BridgeSystem.EVERTUNE
    /\ specs.fretboard = FretboardMaterial.PAU_FERRO
    /\ WoodDescription(specs.bodyWood)
           = Some("Medium density, crisp highs that warm up over time. Exotic, highly figured golden/brown grain.")
    /\ FretboardDescription(specs.fretboard) = Some("Harder than rosewood")
    /\ BridgeDescription(specs.bridge)
           = Some("Mechanical spring modules per saddle, constant tension, zero pitch drift.")

\* C18: while a send streams, the transcript after each fragment ends with
\* the user's message followed by one model entry holding the fragments
\* received so far, in order; at completion the transcript still ends with
\* these two entries, the model entry holding all fragments of that message
\* and of no other.
C18_FragmentsAccumulate ==
    [][ \A i \in DOMAIN sends :
            /\ \A c \in ChunkTexts :
                   StreamChunk(i, c)
                   => /\ sends'[i].fullResponse
                             = sends[i].fullResponse \o ChunkText(c)
                      /\ Len(chatHistory') = Len(chatHistory)
                      /\ Len(chatHistory') >= 2
                      /\ Last(chatHistory')
                             = ChatMessage("model", sends'[i].fullResponse)
                      /\ chatHistory'[Len(chatHistory') - 1]
                             = ChatMessage("user", sends[i].userMsg)
            /\ StreamDone(i)
               => /\ chatHistory' = chatHistory
                  /\ Len(chatHistory) >= 2
                  /\ Last(chatHistory)
                         = ChatMessage("model", sends[i].fullResponse)
                  /\ chatHistory[Len(chatHistory) - 1]
                         = ChatMessage("user", sends[i].userMsg)
      ]_vars

\* the data URI displayed for the image whose base64 text is base64Data
ShowsImageOf(image, base64Data) ==
    \E file \in Files : image = Some(DataUri(file.type, base64Data))

\* C19: an analysis result that becomes the displayed one is the result of
\* analysing the image displayed at that moment: a response to the analysis
\* of an earlier upload never becomes the displayed result.
C19_ResultOfCurrentImage ==
    [][ \A i \in DOMAIN analyses : \A r \in AnalysisResults :
            AnalysisReturn(i, r)
            => ShowsImageOf(originalImage', analyses[i].base64Data)
      ]_vars

\* C20: a displayed generated image comes with the prompt it was rendered
\* from, and a pipeline's outputs are displayed only while the image the
\* pipeline was started on is still the displayed one.
C20_OutputsOfCurrentImage ==
    /\ [](~IsNull(generatedImage) => ~IsNull(generatedPrompt))
    /\ [][ \A i \in DOMAIN sims :
               /\ \A t \in PromptTexts :
                      PromptReturn(i, t)
                      => ShowsImageOf(originalImage',
                                      sims[i].request.image.data)
               /\ \A parts \in ImageParts :
                      (ImageReturn(i, parts) /\ ~IsNull(generatedImage'))
                      => /\ ShowsImageOf(originalImage',
                                         sims[i].request.image.data)
                         /\ generatedPrompt' = sims[i].prompt
         ]_vars

=============================================================================
